---- MODULE Spec2Model ----
(***************************************************************************)
(* Model of mdai_utils/upload_annotation_volume.py: the two library        *)
(* operations upload_data_annotation_volume and                            *)
(* upload_image_annotation_volume, the function main, and the script body  *)
(* that runs when the file is executed.  One run of the model is one call  *)
(* of one of these four entry points, executed statement by statement.     *)
(***************************************************************************)
EXTENDS Integers, Sequences, FiniteSets, TLC

\* ------------------------------------------------------------------ bounds
\* Largest rank (number of dimensions) of an array that is passed or read.
MaxRank == 4
\* Largest extent of one dimension; slice indices and mapping keys follow it.
MaxDim == 2
\* Largest number of entries in the failure list the client reports.
MaxFailures == 2

\* ------------------------------------------------------------ value domains
None == "None"
UIDs == {"UID_A", "UID_B"}
LabelIds == {"L1", "L2"}
Projects == {"P1"}
Datasets == {"D1"}
Patterns == {"half", "ramp"}

RECURSIVE Prod(_)
Prod(s) == IF s = <<>> THEN 1 ELSE Head(s) * Prod(Tail(s))

\* Shapes of arrays: the first extent (the slice count of a volume) may be 0,
\* the others are positive.
Shapes ==
    { s \in UNION { [1..r -> 0..MaxDim] : r \in 0..MaxRank } :
        \A k \in 2..Len(s) : s[k] >= 1 }

\* Voxel k (0-based, row-major) of an array of the given size:
\* "half" is 0 in the first half and 1 in the second (a volume of two slices
\* is then a zero slice followed by a ones slice); "ramp" counts 0,1,2,0,...
Voxel(pat, k, size) ==
    IF pat = "half" THEN (IF 2 * k >= size THEN 1 ELSE 0) ELSE k % 3

\* A numpy array: its shape and its elements in row-major (C) order.
NdArray(shape, pat) ==
    [shape |-> shape,
     flat  |-> [k \in 1..Prod(shape) |-> Voxel(pat, k - 1, Prod(shape))]]

Arrays == { NdArray(s, p) : s \in Shapes, p \in Patterns }

NoArray == [shape |-> <<>>, flat |-> <<>>]

\* dict[int, str]: a set of slice indices, each with a UID; consecutive
\* indices get different UIDs, starting with either one.
Keys == 0..MaxDim
UidOf(k, first) == IF (k + first) % 2 = 0 THEN "UID_A" ELSE "UID_B"
Mappings ==
    { [k \in K |-> UidOf(k, first)] : K \in SUBSET Keys, first \in {0, 1} }
NoMapping == <<>>

\* ------------------------------------------------------------- numpy, dict
ndim(a) == Len(a.shape)

\* len(data_np): the extent of the first axis.
len(a) == a.shape[1]

\* iterating a 3D array yields data_np[i], the i-th 2D slice.
Slice(a, i) ==
    LET m == Prod(Tail(a.shape))
    IN  [shape |-> Tail(a.shape), flat |-> SubSeq(a.flat, i * m + 1, (i + 1) * m)]

\* Mutant: only the trailing axes of extent 1 are dropped.
RECURSIVE DropTrailingOnes(_)
DropTrailingOnes(s) ==
    IF s = <<>> \/ s[Len(s)] # 1 THEN s
    ELSE DropTrailingOnes(SubSeq(s, 1, Len(s) - 1))
squeeze_trailing(a) == [shape |-> DropTrailingOnes(a.shape), flat |-> a.flat]

\* ndarray.squeeze(): drops every axis of extent 1, keeps the elements.
squeeze(a) ==
    [shape |-> SelectSeq(a.shape, LAMBDA d : d # 1), flat |-> a.flat]

\* dict.get(k): the value, or None when the key is absent.
Get(d, k) == IF k \in DOMAIN d THEN d[k] ELSE None

\* mdai.common_utils.convert_mask_data: the SDK's encoding of a 2D mask,
\* which keeps the extent and the positions whose value is above 0.
convert_mask_data(s) ==
    [shape |-> s.shape,
     foreground |-> { k \in 1..Len(s.flat) : s.flat[k] > 0 }]

\* ------------------------------------------------- collaborators of the file
\* JSON object keys are strings: "0", "1", ...
Digits == <<"0", "1", "2", "3", "4", "5", "6", "7", "8", "9">>
str(i) == Digits[i + 1]
int(s) == CHOOSE i \in 0..9 : Digits[i + 1] = s

\* What json.load can return for the file of slice index -> UID.
MetadataDicts ==
    { [s \in { str(k) : k \in DOMAIN m } |-> m[int(s)]] : m \in Mappings }
NoMetadata == <<>>

\* mdai_utils.dicoms_to_volume.metadata_dict_to_sop_instance_uids:
\* the same mapping with its keys turned into integers.
metadata_dict_to_sop_instance_uids(md) ==
    [k \in { int(s) : s \in DOMAIN md } |-> md[str(k)]]

\* mdai_utils.upload_annotation_slice.read_data_image: the array of the image.
read_data_image(img) == img

\* parameters["mdai_label_ids"]: label name -> label id.
LabelTable == ("liver" :> "L1") @@ ("kidney" :> "L2")
NoTable == <<>>
LabelNames == {"liver", "kidney", "spleen"}

\* Command lines: a required option that is not given is None.
Argvs ==
    [input_annotation : {None, "seg.nii"},
     label_name : {None} \cup LabelNames,
     sop_instance_uids_file : {None, "uids.json"},
     parameters : {None, "params.json"}]
NoArgv ==
    [input_annotation |-> None, label_name |-> None,
     sop_instance_uids_file |-> None, parameters |-> None]

\* ---------------------------------------------------------------------- state
VARIABLES
    pc,                 \* the statement the run is at
    entry,              \* the entry point of the run: cli, main, image, data
    args,               \* the parsed command line (cli)
    label_name,         \* the label name given to main
    mdai_label_ids,     \* the label table given to main
    mdai_project_id,
    mdai_dataset_id,
    mdai_client,        \* the client object, None until it is constructed
    mapping_file,       \* main: what the existence test found
    metadata_dict,      \* main: what json.load returned
    image,              \* the array read_data_image returned
    data_np,            \* the array the running function holds
    sop_instance_uids,  \* the slice index -> UID mapping in effect
    mdai_label_id,      \* the label id in effect
    i,                  \* the loop index of enumerate(data_np)
    mdai_annotations,   \* the list of records built so far
    encodeCalls,        \* the slices handed to convert_mask_data, in order
    importCalls,        \* the calls of mdai_client.import_annotations, in order
    clientReturned,     \* what import_annotations returned
    failed_annotations, \* what the entry point returned to its caller
    raised,             \* the exception that left the entry point, or None
    exitStatus,         \* the process exit status, -1 while running
    stdout,             \* what the script printed
    trace               \* the statements executed, in order

inputs == <<entry, args, label_name, mdai_label_ids, mdai_project_id,
            mdai_dataset_id, mdai_client, mapping_file, metadata_dict, image>>
locals == <<data_np, sop_instance_uids, mdai_label_id, i, mdai_annotations,
            encodeCalls, importCalls, clientReturned, failed_annotations>>
ctl == <<pc, raised, exitStatus, stdout, trace>>
vars == <<inputs, locals, ctl>>

Init ==
    /\ pc = "idle"
    /\ entry = None
    /\ args = NoArgv
    /\ label_name = None
    /\ mdai_label_ids = NoTable
    /\ mdai_project_id = None
    /\ mdai_dataset_id = None
    /\ mdai_client = None
    /\ mapping_file = "unchecked"
    /\ metadata_dict = NoMetadata
    /\ image = NoArray
    /\ data_np = NoArray
    /\ sop_instance_uids = NoMapping
    /\ mdai_label_id = None
    /\ i = 0
    /\ mdai_annotations = <<>>
    /\ encodeCalls = <<>>
    /\ importCalls = <<>>
    /\ clientReturned = <<>>
    /\ failed_annotations = <<>>
    /\ raised = None
    /\ exitStatus = -1
    /\ stdout = <<>>
    /\ trace = <<>>

\* The exceptions the file raises itself.
ErrNotThreeD == "ValueError: data_np must be a 3D numpy array."
ErrCount == "ValueError: The number of slices in data_np and sop_instance_uids must be the same."
ErrUseSlice == "ValueError: Image has dimension {ndim}. Use aupload_image_annotation_slice instead of volume."
ErrMoreThan3 == "ValueError: The input image seems to have more than 3 dimensions."
ErrMissingFile == "FileNotFoundError: The file does not exist."

\* An exception leaves the statement `step`.  Nothing in the file catches
\* it: a library call ends with the exception; the script ends with the
\* interpreter writing the traceback to stderr and exiting with status 1.
Raise(step, err) ==
    /\ raised' = err
    /\ trace' = Append(trace, step)
    /\ IF entry = "cli"
       THEN /\ pc' = "exited"
            /\ exitStatus' = 1
       ELSE /\ pc' = "raised"
            /\ UNCHANGED exitStatus
    /\ UNCHANGED stdout

\* The statement `step` completes and control moves to `next`.
Goto(step, next) ==
    /\ pc' = next
    /\ trace' = Append(trace, step)
    /\ UNCHANGED <<raised, exitStatus, stdout>>

\* Where `return failed_annotations` of the library functions leads: back
\* into the script, or out of the call.
ReturnTo == IF entry = "cli" THEN "cli_outcome" ELSE "returned"

\* ------------------------------------------- upload_data_annotation_volume
\* Mutant: only ranks below 3 are rejected.
NotThreeD_below(a) == ndim(a) < 3

\* if data_np.ndim != 3
NotThreeD(a) == ndim(a) # 3

\* Mutant: only a mapping larger than the volume is rejected.
CountMismatch_less(a, sop) == len(a) < Cardinality(DOMAIN sop)

\* if len_data_np != len_sop_instance_uids
CountMismatch(a, sop) == len(a) # Cardinality(DOMAIN sop)

\* Mutant: the UID is looked up with a 1-based slice index.
annotation_dict_offByOne(label, sop, a, k) ==
    [labelId |-> label,
     SOPInstanceUID |-> Get(sop, k + 1),
     data |-> convert_mask_data(Slice(a, k))]

\* The record built in iteration k of the loop.
annotation_dict(label, sop, a, k) ==
    [labelId |-> label,
     SOPInstanceUID |-> Get(sop, k),
     data |-> convert_mask_data(Slice(a, k))]

\* Mutant: the record is put at the front of the list.
AppendAnnotation_front(list, rec) == <<rec>> \o list

\* mdai_annotations.append(annotation_dict)
AppendAnnotation(list, rec) == Append(list, rec)

\* The arguments of mdai_client.import_annotations.
ImportArgs(anns, project, dataset) ==
    [annotations |-> anns, project_id |-> project, dataset_id |-> dataset]

\* Mutant: the failure list is returned in reverse order.
ReturnValue_reversed(resp) == [j \in 1..Len(resp) |-> resp[Len(resp) + 1 - j]]

\* return failed_annotations
ReturnValue(resp) == resp

\* The failure lists the external client can report for a batch: up to
\* MaxFailures of its records, in any order.
RECURSIVE Picks(_, _)
Picks(idx, n) ==
    IF n = 0 THEN {<<>>}
    ELSE {<<>>} \cup
         { <<k>> \o rest : k \in idx, rest \in Picks(idx, n - 1) }
Responses(anns) ==
    { [j \in 1..Len(p) |-> anns[p[j]]] :
        p \in { q \in Picks(1..Len(anns), MaxFailures) :
                  \A a, b \in 1..Len(q) : a # b => q[a] # q[b] } }

\* A caller passes an array, a mapping and the ids.
CallData ==
    /\ pc = "idle"
    /\ \E a \in Arrays, sop \in Mappings, label \in LabelIds,
          project \in Projects, dataset \in Datasets :
          /\ entry' = "data"
          /\ data_np' = a
          /\ sop_instance_uids' = sop
          /\ mdai_label_id' = label
          /\ mdai_project_id' = project
          /\ mdai_dataset_id' = dataset
          /\ mdai_client' = "client"
    /\ Goto("call_data", "data_ndim")
    /\ UNCHANGED <<args, label_name, mdai_label_ids, mapping_file, metadata_dict, image,
                   i, mdai_annotations, encodeCalls, importCalls,
                   clientReturned, failed_annotations>>

\* if data_np.ndim != 3: raise ValueError
DataNdim ==
    /\ pc = "data_ndim"
    /\ IF NotThreeD(data_np)
       THEN Raise("ndim_check", ErrNotThreeD)
       ELSE Goto("ndim_check", "data_count")
    /\ UNCHANGED <<inputs, locals>>

\* mdai_annotations = []; the comparison of the two lengths.
DataCount ==
    /\ pc = "data_count"
    /\ mdai_annotations' = <<>>
    /\ IF CountMismatch(data_np, sop_instance_uids)
       THEN /\ Raise("count_check", ErrCount)
            /\ UNCHANGED i
       ELSE /\ Goto("count_check", "data_loop")
            /\ i' = 0
    /\ UNCHANGED <<inputs, data_np, sop_instance_uids, mdai_label_id,
                   encodeCalls, importCalls, clientReturned, failed_annotations>>

\* One iteration of `for i, data_slice in enumerate(data_np)`.
DataLoop ==
    /\ pc = "data_loop"
    /\ i < len(data_np)
    /\ encodeCalls' = Append(encodeCalls, Slice(data_np, i))
    /\ mdai_annotations' =
           AppendAnnotation(mdai_annotations,
               annotation_dict(mdai_label_id, sop_instance_uids, data_np, i))
    /\ i' = i + 1
    /\ Goto("build_record", "data_loop")
    /\ UNCHANGED <<inputs, data_np, sop_instance_uids, mdai_label_id,
                   importCalls, clientReturned, failed_annotations>>

\* mdai_client.import_annotations(...): the client answers with a failure
\* list, or raises.
DataImport ==
    /\ pc = "data_loop"
    /\ i >= len(data_np)
    /\ importCalls' =
           Append(importCalls,
               ImportArgs(mdai_annotations, mdai_project_id, mdai_dataset_id))
    /\ \/ /\ \E resp \in Responses(mdai_annotations) : clientReturned' = resp
          /\ Goto("import", "data_return")
       \/ /\ Raise("import", "ClientError")
          /\ UNCHANGED clientReturned
    /\ UNCHANGED <<inputs, data_np, sop_instance_uids, mdai_label_id, i,
                   mdai_annotations, encodeCalls, failed_annotations>>

\* return failed_annotations, handed up through the callers unchanged.
DataReturn ==
    /\ pc = "data_return"
    /\ failed_annotations' = ReturnValue(clientReturned)
    /\ Goto("return", ReturnTo)
    /\ UNCHANGED <<inputs, data_np, sop_instance_uids, mdai_label_id, i,
                   mdai_annotations, encodeCalls, importCalls, clientReturned>>

\* ------------------------------------------ upload_image_annotation_volume
\* Mutant: only ranks below 2 are rejected.
ImageTooSmall_below2(a) == ndim(a) < 2

\* if data_np.ndim < 3
ImageTooSmall(a) == ndim(a) < 3

\* if data_np.ndim > 3
ImageTooBig(a) == ndim(a) > 3

\* A caller passes the path of an image, a mapping and the ids.
CallImage ==
    /\ pc = "idle"
    /\ \E sop \in Mappings, label \in LabelIds,
          project \in Projects, dataset \in Datasets :
          /\ entry' = "image"
          /\ sop_instance_uids' = sop
          /\ mdai_label_id' = label
          /\ mdai_project_id' = project
          /\ mdai_dataset_id' = dataset
          /\ mdai_client' = "client"
    /\ Goto("call_image", "image_read")
    /\ UNCHANGED <<args, label_name, mdai_label_ids, mapping_file, metadata_dict, image,
                   data_np, i, mdai_annotations, encodeCalls, importCalls,
                   clientReturned, failed_annotations>>

\* data_np = read_data_image(segmentation_image_path)
ImageRead ==
    /\ pc = "image_read"
    /\ \E img \in Arrays :
          /\ image' = img
          /\ data_np' = read_data_image(img)
    /\ Goto("read_image", "image_lt3")
    /\ UNCHANGED <<entry, args, label_name, mdai_label_ids, mdai_project_id,
                   mdai_dataset_id, mdai_client, mapping_file, metadata_dict,
                   sop_instance_uids, mdai_label_id, i, mdai_annotations,
                   encodeCalls, importCalls, clientReturned, failed_annotations>>

\* if data_np.ndim < 3: raise ValueError; then the test ndim > 3.
ImageLt3 ==
    /\ pc = "image_lt3"
    /\ IF ImageTooSmall(data_np)
       THEN Raise("lt3_check", ErrUseSlice)
       ELSE Goto("lt3_check",
                 IF ImageTooBig(data_np) THEN "image_squeeze" ELSE "data_ndim")
    /\ UNCHANGED <<inputs, locals>>

\* data_np = data_np.squeeze(); if data_np.ndim != 3: raise ValueError
ImageSqueeze ==
    /\ pc = "image_squeeze"
    /\ data_np' = squeeze(data_np)
    /\ IF ndim(data_np') # 3
       THEN Raise("squeeze", ErrMoreThan3)
       ELSE Goto("squeeze", "data_ndim")
    /\ UNCHANGED <<inputs, sop_instance_uids, mdai_label_id, i,
                   mdai_annotations, encodeCalls, importCalls, clientReturned,
                   failed_annotations>>

\* --------------------------------------------------------------------- main
\* Mutant: the existence test is dropped.
MissingFile_never(exists) == FALSE

\* if not sop_instance_uids_file_path.exists()
MissingFile(exists) == ~exists

\* The name json is bound by the `import json` of the script body only.
JsonImported == entry = "cli"

\* A caller passes the paths, the label name, the label table and the ids.
CallMain ==
    /\ pc = "idle"
    /\ \E name \in LabelNames, project \in Projects, dataset \in Datasets :
          /\ entry' = "main"
          /\ label_name' = name
          /\ mdai_label_ids' = LabelTable
          /\ mdai_project_id' = project
          /\ mdai_dataset_id' = dataset
          /\ mdai_client' = "client"
    /\ Goto("call_main", "main_exists")
    /\ UNCHANGED <<args, mapping_file, metadata_dict, image, locals>>

\* The existence test of the mapping file.
MainExists ==
    /\ pc = "main_exists"
    /\ \E exists \in BOOLEAN :
          /\ mapping_file' = IF exists THEN "present" ELSE "missing"
          /\ IF MissingFile(exists)
             THEN Raise("exists_check", ErrMissingFile)
             ELSE Goto("exists_check", "main_load")
    /\ UNCHANGED <<entry, args, label_name, mdai_label_ids, mdai_project_id,
                   mdai_dataset_id, mdai_client, metadata_dict, image, locals>>

\* metadata_dict = json.load(f)
MainLoad ==
    /\ pc = "main_load"
    /\ IF ~JsonImported
       THEN /\ Raise("load_mapping", "NameError: json")
            /\ UNCHANGED metadata_dict
       ELSE \/ /\ \E md \in MetadataDicts : metadata_dict' = md
               /\ Goto("load_mapping", "main_convert")
            \/ /\ Raise("load_mapping", "JSONDecodeError")
               /\ UNCHANGED metadata_dict
    /\ UNCHANGED <<entry, args, label_name, mdai_label_ids, mdai_project_id,
                   mdai_dataset_id, mdai_client, mapping_file, image, locals>>

\* sop_instance_uids = metadata_dict_to_sop_instance_uids(metadata_dict)
MainConvert ==
    /\ pc = "main_convert"
    /\ sop_instance_uids' = metadata_dict_to_sop_instance_uids(metadata_dict)
    /\ Goto("convert_mapping", "main_label")
    /\ UNCHANGED <<inputs, data_np, mdai_label_id, i, mdai_annotations,
                   encodeCalls, importCalls, clientReturned, failed_annotations>>

\* mdai_label_id = mdai_label_ids[label_name]
MainLabel ==
    /\ pc = "main_label"
    /\ IF label_name \notin DOMAIN mdai_label_ids
       THEN /\ Raise("main_label", "KeyError")
            /\ UNCHANGED mdai_label_id
       ELSE /\ mdai_label_id' = mdai_label_ids[label_name]
            /\ Goto("main_label", "image_read")
    /\ UNCHANGED <<inputs, data_np, sop_instance_uids, i, mdai_annotations,
                   encodeCalls, importCalls, clientReturned, failed_annotations>>

\* ---------------------------------------------------------- the script body
\* Mutant: the token and the client are obtained before the label is resolved.
ScriptNext_tokenFirst(p) ==
    CASE p = "cli_parse"  -> "cli_params"
      [] p = "cli_params" -> "cli_token"
      [] p = "cli_token"  -> "cli_client"
      [] p = "cli_client" -> "cli_label"
      [] p = "cli_label"  -> "cli_main"
      [] p = "cli_main"   -> "main_exists"
      [] OTHER            -> "exited"

\* The statements of the script body, in the order they are written.
ScriptNext(p) ==
    CASE p = "cli_parse"  -> "cli_params"
      [] p = "cli_params" -> "cli_label"
      [] p = "cli_label"  -> "cli_token"
      [] p = "cli_token"  -> "cli_client"
      [] p = "cli_client" -> "cli_main"
      [] p = "cli_main"   -> "main_exists"
      [] OTHER            -> "exited"

\* Mutant: the two exit statuses are exchanged.
ExitCode_swapped(failed) == IF Len(failed) = 0 THEN 1 ELSE 0

\* The status of exit(0) / exit(1).
ExitCode(failed) == IF Len(failed) = 0 THEN 0 ELSE 1

\* The line printed before exiting.
Outcome(failed) ==
    IF Len(failed) = 0
    THEN [text |-> "All annotations uploaded successfully.", failures |-> <<>>]
    ELSE [text |-> "Failed annotations:", failures |-> failed]

\* The file is run as a script with some command line.
RunScript ==
    /\ pc = "idle"
    /\ entry' = "cli"
    /\ Goto("run_script", "cli_parse")
    /\ UNCHANGED <<args, label_name, mdai_label_ids, mdai_project_id,
                   mdai_dataset_id, mdai_client, mapping_file, metadata_dict, image, locals>>

\* args = parser.parse_args(); print(args).  argparse exits with status 2
\* when a required option is missing.
ParseArgs ==
    /\ pc = "cli_parse"
    /\ \E argv \in Argvs :
          IF \/ argv.input_annotation = None
             \/ argv.label_name = None
             \/ argv.sop_instance_uids_file = None
          THEN /\ pc' = "exited"
               /\ exitStatus' = 2
               /\ raised' = "SystemExit"
               /\ trace' = Append(trace, "parse_args")
               /\ UNCHANGED <<args, stdout>>
          ELSE /\ args' = argv
               /\ pc' = ScriptNext(pc)
               /\ trace' = Append(trace, "parse_args")
               /\ stdout' = Append(stdout, [text |-> "args", failures |-> <<>>])
               /\ UNCHANGED <<raised, exitStatus>>
    /\ UNCHANGED <<entry, label_name, mdai_label_ids, mdai_project_id,
                   mdai_dataset_id, mdai_client, mapping_file, metadata_dict, image, locals>>

\* with open(args.parameters) as f: parameters = json.load(f), and the four
\* parameters[...] reads.
LoadParameters ==
    /\ pc = "cli_params"
    /\ IF args.parameters = None
       THEN /\ Raise("load_parameters", "TypeError")
            /\ UNCHANGED <<mdai_label_ids, mdai_project_id, mdai_dataset_id>>
       ELSE \E file \in {"missing", "malformed", "nokey", "ok"} :
              IF file = "ok"
              THEN /\ \E project \in Projects, dataset \in Datasets :
                         /\ mdai_project_id' = project
                         /\ mdai_dataset_id' = dataset
                   /\ mdai_label_ids' = LabelTable
                   /\ Goto("load_parameters", ScriptNext(pc))
              ELSE /\ Raise("load_parameters",
                            CASE file = "missing" -> "FileNotFoundError"
                              [] file = "malformed" -> "JSONDecodeError"
                              [] OTHER -> "KeyError")
                   /\ UNCHANGED <<mdai_label_ids, mdai_project_id, mdai_dataset_id>>
    /\ UNCHANGED <<entry, args, label_name, mdai_client, mapping_file, metadata_dict, image,
                   locals>>

\* label_name = args.label_name; mdai_label_id = mdai_label_ids[label_name]
ResolveLabel ==
    /\ pc = "cli_label"
    /\ label_name' = args.label_name
    /\ IF args.label_name \notin DOMAIN mdai_label_ids
       THEN /\ Raise("resolve_label", "KeyError")
            /\ UNCHANGED mdai_label_id
       ELSE /\ mdai_label_id' = mdai_label_ids[args.label_name]
            /\ Goto("resolve_label", ScriptNext(pc))
    /\ UNCHANGED <<entry, args, mdai_label_ids, mdai_project_id,
                   mdai_dataset_id, mdai_client, mapping_file, metadata_dict, image,
                   data_np, sop_instance_uids, i, mdai_annotations,
                   encodeCalls, importCalls, clientReturned, failed_annotations>>

\* token = get_mdai_access_token()
GetToken ==
    /\ pc = "cli_token"
    /\ mdai_client' = "token"
    /\ Goto("get_token", ScriptNext(pc))
    /\ UNCHANGED <<entry, args, label_name, mdai_label_ids, mdai_project_id,
                   mdai_dataset_id, mapping_file, metadata_dict, image, locals>>

\* mdai_client = mdai.Client(domain=mdai_domain, access_token=token)
MakeClient ==
    /\ pc = "cli_client"
    /\ mdai_client' = "client"
    /\ Goto("make_client", ScriptNext(pc))
    /\ UNCHANGED <<entry, args, label_name, mdai_label_ids, mdai_project_id,
                   mdai_dataset_id, mapping_file, metadata_dict, image, locals>>

\* failed_annotations = main(...): the script enters main.
ScriptCallMain ==
    /\ pc = "cli_main"
    /\ Goto("pipeline", ScriptNext(pc))
    /\ UNCHANGED <<inputs, locals>>

\* The final if/else: print the outcome and exit.
ScriptOutcome ==
    /\ pc = "cli_outcome"
    /\ stdout' = Append(stdout, Outcome(failed_annotations))
    /\ exitStatus' = ExitCode(failed_annotations)
    /\ pc' = "exited"
    /\ trace' = Append(trace, "print_outcome")
    /\ UNCHANGED <<raised, inputs, locals>>

Next ==
    \/ CallData
    \/ DataNdim
    \/ DataCount
    \/ DataLoop
    \/ DataImport
    \/ DataReturn
    \/ CallImage
    \/ ImageRead
    \/ ImageLt3
    \/ ImageSqueeze
    \/ CallMain
    \/ MainExists
    \/ MainLoad
    \/ MainConvert
    \/ MainLabel
    \/ RunScript
    \/ ParseArgs
    \/ LoadParameters
    \/ ResolveLabel
    \/ GetToken
    \/ MakeClient
    \/ ScriptCallMain
    \/ ScriptOutcome

Spec == Init /\ [][Next]_vars

\* ==================================================================== claims
Ended == pc \in {"returned", "raised", "exited"}
Executed(step) == \E k \in 1..Len(trace) : trace[k] = step
Size(sop) == Cardinality(DOMAIN sop)
\* The run is inside or past upload_data_annotation_volume with arguments
\* that pass both of its checks.
Validated == ndim(data_np) = 3 /\ len(data_np) = Size(sop_instance_uids)

\* C1: for a 3D array of n slices and a mapping of size n exactly n records
\* are built, and the record at position k of the list handed to the client
\* is the one built from slice k (0-based), both while the list is being
\* built and in the call of the client.
C1_RecordsFollowSliceOrder ==
    /\ pc = "data_loop" =>
          /\ Len(mdai_annotations) = i
          /\ Len(encodeCalls) = i
          /\ \A k \in 1..i :
                /\ encodeCalls[k] = Slice(data_np, k - 1)
                /\ mdai_annotations[k].data = convert_mask_data(Slice(data_np, k - 1))
    /\ (Ended /\ Validated) =>
          /\ Len(importCalls) = 1
          /\ Len(importCalls[1].annotations) = len(data_np)
          /\ Len(encodeCalls) = len(data_np)
          /\ \A k \in 1..len(data_np) :
                /\ encodeCalls[k] = Slice(data_np, k - 1)
                /\ importCalls[1].annotations[k].data =
                       convert_mask_data(Slice(data_np, k - 1))

\* A direct call with two slices that encode differently has returned.
C1_Witness ==
    /\ entry = "data"
    /\ pc = "returned"
    /\ Validated
    /\ len(data_np) = 2
    /\ Len(importCalls) = 1
    /\ importCalls[1].annotations[1].data # importCalls[1].annotations[2].data

\* The record the claim describes for slice k (0-based).
RecordOfSlice(k) ==
    [labelId |-> mdai_label_id,
     SOPInstanceUID |-> IF k \in DOMAIN sop_instance_uids
                        THEN sop_instance_uids[k] ELSE None,
     data |-> convert_mask_data(Slice(data_np, k))]

\* C2: the record of slice k is {labelId: the call's label id,
\* SOPInstanceUID: the mapping's value for key k or None when k is no key,
\* data: the encoding of slice k}; a record with a None UID reaches the
\* client and the file raises nothing because of it.
C2_RecordContents ==
    /\ \A k \in 1..Len(mdai_annotations) : mdai_annotations[k] = RecordOfSlice(k - 1)
    /\ \A c \in 1..Len(importCalls) :
          \A k \in 1..Len(importCalls[c].annotations) :
             importCalls[c].annotations[k] = RecordOfSlice(k - 1)
    /\ (Ended /\ Validated) =>
          /\ raised \in {None, "ClientError"}
          /\ Len(importCalls) = 1
          /\ \A k \in 0..(len(data_np) - 1) :
                k \notin DOMAIN sop_instance_uids =>
                   importCalls[1].annotations[k + 1].SOPInstanceUID = None

\* The end-to-end scenario with a 2x2 plane: a zero slice and a ones slice,
\* the map {0: UID_A, 1: UID_B} and the label L1.
C2_Witness ==
    /\ pc = "returned"
    /\ data_np = NdArray(<<2, 2, 2>>, "half")
    /\ importCalls =
          << [annotations |->
                << [labelId |-> "L1", SOPInstanceUID |-> "UID_A",
                    data |-> [shape |-> <<2, 2>>, foreground |-> {}]],
                   [labelId |-> "L1", SOPInstanceUID |-> "UID_B",
                    data |-> [shape |-> <<2, 2>>, foreground |-> {1, 2, 3, 4}]] >>,
              project_id |-> "P1", dataset_id |-> "D1"] >>

\* A record with a None SOPInstanceUID was handed to the client.
C2_NoneReachesClient ==
    /\ pc = "returned"
    /\ \E k \in 1..Len(mdai_annotations) : mdai_annotations[k].SOPInstanceUID = None
    /\ Len(importCalls) = 1

\* C3: with a 3D array of n slices and a mapping whose size is not n the
\* operation fails with the count error; no record is built, no slice is
\* encoded and the client is never called.
C3_CountMismatchFails ==
    (ndim(data_np) = 3 /\ len(data_np) # Size(sop_instance_uids)) =>
       /\ mdai_annotations = <<>>
       /\ encodeCalls = <<>>
       /\ importCalls = <<>>
       /\ pc \notin {"data_loop", "data_return", "returned", "cli_outcome"}
       /\ Executed("count_check") => (Ended /\ raised = ErrCount)
       /\ Ended => (raised = ErrCount /\ trace[Len(trace)] = "count_check")

C3_Witness ==
    /\ pc = "raised"
    /\ raised = ErrCount
    /\ ndim(data_np) = 3
    /\ len(data_np) = 2
    /\ Size(sop_instance_uids) = 1

\* C4: an array of rank other than 3 given to upload_data_annotation_volume
\* fails with the shape error at the rank check: before the count check,
\* before any record and before any upload, whatever the mapping is.
C4_RankCheckFirst ==
    /\ (entry = "data" /\ ndim(data_np) # 3) => pc \in {"data_ndim", "raised"}
    /\ (Executed("ndim_check") /\ ndim(data_np) # 3) =>
          /\ Ended
          /\ raised = ErrNotThreeD
          /\ trace[Len(trace)] = "ndim_check"
          /\ ~Executed("count_check")
          /\ mdai_annotations = <<>>
          /\ encodeCalls = <<>>
          /\ importCalls = <<>>

\* A rank-4 array whose mapping has as many entries as its first axis.
C4_Witness ==
    /\ entry = "data"
    /\ pc = "raised"
    /\ raised = ErrNotThreeD
    /\ ndim(data_np) = 4
    /\ Size(sop_instance_uids) = len(data_np)

\* C5: an image of fewer than 3 dimensions fails with the error that names
\* the single-slice upload; it is not squeezed, the from-array operation is
\* not entered and nothing is encoded or uploaded.
C5_LowRankImageFails ==
    /\ (Executed("read_image") /\ ndim(image) < 3) =>
          pc \in {"image_lt3", "raised", "exited"}
    /\ (Executed("lt3_check") /\ ndim(image) < 3) =>
          /\ Ended
          /\ raised = ErrUseSlice
          /\ trace[Len(trace)] = "lt3_check"
          /\ ~Executed("squeeze")
          /\ ~Executed("ndim_check")
          /\ data_np = image
          /\ encodeCalls = <<>>
          /\ importCalls = <<>>

C5_Witness ==
    /\ entry = "image"
    /\ pc = "raised"
    /\ raised = ErrUseSlice
    /\ ndim(image) = 2

\* The number of axes of an image whose extent is not 1.
WideAxes(img) == Cardinality({ j \in 1..ndim(img) : img.shape[j] # 1 })

\* A rank-4 image with exactly one axis of extent 1.
OneSingleton(img) == ndim(img) = 4 /\ WideAxes(img) = 3

\* The native rank-3 array of the squeezed shape: the extents of the image
\* without the singleton axis, and the same elements.
Native(img) ==
    LET j == CHOOSE j \in 1..4 : img.shape[j] = 1
    IN  [shape |-> [m \in 1..3 |-> IF m < j THEN img.shape[m] ELSE img.shape[m + 1]],
         flat |-> img.flat]

\* What upload_data_annotation_volume does with the rank-3 array a and the
\* run's mapping and ids: the count error and no call of the client, or one
\* call with the records of the slices of a, whose answer is returned.
ProceedsAsDirectCall(a) ==
    IF len(a) # Size(sop_instance_uids)
    THEN /\ raised = ErrCount
         /\ importCalls = <<>>
    ELSE /\ raised \in {None, "ClientError"}
         /\ importCalls =
               << ImportArgs(
                     [k \in 1..len(a) |->
                        annotation_dict(mdai_label_id, sop_instance_uids, a, k - 1)],
                     mdai_project_id, mdai_dataset_id) >>
         /\ raised = None => failed_annotations = clientReturned

\* C6: a rank-4 image with one axis of extent 1 passes the squeeze and the
\* run then ends as the run of a native rank-3 array of the squeezed shape
\* does: the same records, the same call of the client, the same returned
\* failures.  An image of rank above 3 that does not squeeze to rank 3
\* fails with the dimension error and uploads nothing.
C6_SqueezeThenAsNative ==
    /\ (Executed("lt3_check") /\ ndim(image) > 3 /\ pc # "image_squeeze") =>
          Executed("squeeze")
    /\ (Executed("squeeze") /\ OneSingleton(image)) =>
          /\ raised # ErrMoreThan3
          /\ data_np = Native(image)
          /\ Ended => ProceedsAsDirectCall(Native(image))
    /\ (Executed("read_image") /\ ndim(image) = 3 /\ Ended) =>
          /\ ~Executed("squeeze")
          /\ ProceedsAsDirectCall(image)
    /\ (entry = "data" /\ ndim(data_np) = 3 /\ Ended) =>
          ProceedsAsDirectCall(data_np)
    /\ (Executed("squeeze") /\ WideAxes(image) # 3) =>
          /\ Ended
          /\ raised = ErrMoreThan3
          /\ ~Executed("ndim_check")
          /\ encodeCalls = <<>>
          /\ importCalls = <<>>

\* An image of shape [2,1,h,w]-like rank 4 was squeezed, uploaded as two
\* slices and the call returned.
C6_Witness ==
    /\ entry = "image"
    /\ pc = "returned"
    /\ OneSingleton(image)
    /\ Executed("squeeze")
    /\ len(data_np) = 2
    /\ Len(importCalls) = 1

\* C7: a script run that reaches the final if/else exits with status 0
\* exactly when the failure list the upload returned is empty; with a
\* nonempty list it prints the failures and exits with status 1.
C7_ExitStatusReflectsFailures ==
    /\ pc = "cli_outcome" => exitStatus = -1
    /\ (pc = "exited" /\ Executed("print_outcome")) =>
          /\ failed_annotations = clientReturned
          /\ exitStatus = 0 <=> failed_annotations = <<>>
          /\ failed_annotations = <<>> =>
                stdout[Len(stdout)] =
                   [text |-> "All annotations uploaded successfully.",
                    failures |-> <<>>]
          /\ failed_annotations # <<>> =>
                /\ exitStatus = 1
                /\ stdout[Len(stdout)] =
                      [text |-> "Failed annotations:", failures |-> failed_annotations]

C7_Witness ==
    /\ entry = "cli"
    /\ pc = "exited"
    /\ Executed("print_outcome")
    /\ Len(failed_annotations) = 2
    /\ exitStatus = 1

\* The input of the run is known to be malformed: the mapping file is
\* missing, the image does not have (or squeeze to) rank 3, or the slice
\* count differs from the mapping size.
Malformed ==
    \/ mapping_file = "missing"
    \/ Executed("lt3_check") /\ ndim(image) < 3
    \/ Executed("squeeze") /\ WideAxes(image) # 3
    \/ Executed("count_check") /\ ndim(data_np) = 3
          /\ len(data_np) # Size(sop_instance_uids)

\* C8: on malformed input the error is raised before the client's batch
\* import is called, no statement runs after the raise, and a script run
\* ends with a nonzero status and without reaching the outcome step; a
\* missing mapping file makes main fail with the missing-file error before
\* the mapping is loaded and before the image is read.
C8_MalformedInputRaisesUncaught ==
    /\ raised # None => (Ended /\ exitStatus # 0)
    /\ Malformed =>
          /\ Ended
          /\ raised \in {ErrMissingFile, ErrUseSlice, ErrMoreThan3, ErrCount}
          /\ importCalls = <<>>
          /\ trace[Len(trace)] \in {"exists_check", "lt3_check", "squeeze", "count_check"}
          /\ ~Executed("print_outcome")
          /\ entry = "cli" => (pc = "exited" /\ exitStatus = 1)
    /\ mapping_file = "missing" =>
          /\ raised = ErrMissingFile
          /\ trace[Len(trace)] = "exists_check"
          /\ ~Executed("load_mapping")
          /\ ~Executed("read_image")
          /\ metadata_dict = NoMetadata
          /\ image = NoArray

C8_Witness ==
    /\ entry = "cli"
    /\ pc = "exited"
    /\ mapping_file = "missing"
    /\ raised = ErrMissingFile
    /\ exitStatus = 1

\* C9: in a call that passes validation the client's batch import is
\* called exactly once, after all n records are built, with the full list
\* and the given project and dataset ids; nothing is handed to the client
\* before that call; the caller gets exactly the list the client returned.
C9_SingleImportPassThrough ==
    /\ Len(importCalls) <= 1
    /\ pc \in {"data_ndim", "data_count", "data_loop"} => importCalls = <<>>
    /\ importCalls # <<>> =>
          /\ Validated
          /\ i = len(data_np)
          /\ Len(mdai_annotations) = len(data_np)
          /\ importCalls[1] =
                [annotations |-> mdai_annotations,
                 project_id |-> mdai_project_id,
                 dataset_id |-> mdai_dataset_id]
    /\ (Validated /\ Ended) => Len(importCalls) = 1
    /\ Executed("return") =>
          /\ Len(importCalls) = 1
          /\ failed_annotations = clientReturned
    /\ ~Executed("return") => failed_annotations = <<>>

\* The client reported two different records as failed, and the call
\* returned them.
C9_Witness ==
    /\ entry = "data"
    /\ pc = "returned"
    /\ Len(importCalls) = 1
    /\ Len(failed_annotations) = 2
    /\ failed_annotations[1] # failed_annotations[2]

\* The statements of the script body and those that run inside main(...).
ScriptSteps ==
    <<"parse_args", "load_parameters", "resolve_label", "get_token",
      "make_client", "pipeline", "print_outcome">>
PipelineSteps ==
    {"exists_check", "load_mapping", "convert_mapping", "main_label",
     "read_image", "lt3_check", "squeeze", "ndim_check", "count_check",
     "build_record", "import", "return"}
InScript(e) == \E k \in 1..Len(ScriptSteps) : ScriptSteps[k] = e
ScriptTrace == SelectSeq(trace, InScript)
IsPrefix(a, b) ==
    /\ Len(a) <= Len(b)
    /\ \A k \in 1..Len(a) : a[k] = b[k]

\* C10: the steps of a script run are a prefix of the fixed order parse
\* arguments, load parameters, resolve label, get token, make client, run
\* the pipeline, print the outcome and exit, each at most once; a run that
\* exits through the outcome step has done all of them; the mapping file is
\* checked and read inside the pipeline step; the label is resolved before
\* the token is requested, and the token and the client exist before the
\* existence of the mapping file is checked.
C10_ScriptIsLinear ==
    entry = "cli" =>
       /\ IsPrefix(ScriptTrace, ScriptSteps)
       /\ \A k \in 1..Len(trace) :
             trace[k] \in PipelineSteps =>
                /\ \E j \in 1..(k - 1) : trace[j] = "pipeline"
                /\ \A j \in 1..(k - 1) : trace[j] # "print_outcome"
       /\ \A k \in 1..Len(trace) :
             trace[k] = "pipeline" /\ k < Len(trace) => trace[k + 1] = "exists_check"
       /\ Executed("print_outcome") =>
             /\ ScriptTrace = ScriptSteps
             /\ Executed("return")
             /\ pc = "exited"
       /\ (pc = "exited" /\ raised = None) => Executed("print_outcome")
       /\ Executed("get_token") =>
             /\ Executed("resolve_label")
             /\ mdai_label_id = LabelTable[label_name]
       /\ mapping_file # "unchecked" =>
             /\ Executed("get_token")
             /\ Executed("make_client")
             /\ mdai_client = "client"
       /\ Executed("load_mapping") => mapping_file = "present"

C10_Witness ==
    /\ entry = "cli"
    /\ pc = "exited"
    /\ exitStatus = 0
    /\ ScriptTrace = ScriptSteps
    /\ Executed("squeeze")

====
